---- MODULE Spec2Model ----
(***************************************************************************)
(* A model of cacheops/redis.py: the get-or-lock protocol of               *)
(* CacheopsRedis (getting, _get_or_lock, _release_lock and their two Lua   *)
(* scripts), the failure decorators handle_connection_failure and          *)
(* degrade_client_decorator, and the SafeRedis client built from them.     *)
(*                                                                         *)
(* The redis server is the state: the value at the cache key, the list at  *)
(* the signal key and the pending expirations.  Each caller is a thread    *)
(* running one `with redis_client.getting(key, lock=...)` block.           *)
(***************************************************************************)
EXTENDS Integers, Sequences, FiniteSets, TLC

\* ------------------------------------------------------------------ bounds
NCallers == 3                 \* callers of the protocol on a healthy backend
NFaultyCallers == 2           \* callers when backend calls may fail
NCrashCallers == 2            \* callers when owners may stall for ever
NLazyCallers == 3             \* threads using the LazyRedis object
NReplicaCallers == 2          \* callers when a replica is configured

\* ------------------------------------------------------- program constants
LOCK_TIMEOUT == 60
SIGNAL_EXPIRE == 1

Callers == 1..NCallers
FaultyCallers == 1..NFaultyCallers
CrashCallers == 1..NCrashCallers
LazyCallers == 1..NLazyCallers
ReplicaCallers == 1..NReplicaCallers
Keys == {"k1"}
Values == {"v1", "v2"}        \* real cached payloads
NoneV == "None"               \* python None / a missing redis key
LOCK == "LOCK"                \* the sentinel b'LOCK'
redis_client == "redis_client"
Clients == {redis_client}

NoExc == "none"
ConnectionError == "ConnectionError"
TimeoutError == "TimeoutError"
ResponseError == "ResponseError"          \* any other redis.RedisError
DegradedClientError == "DegradedClientError"
AppError == "AppError"                    \* an error of the caller's computation
Faults == {ConnectionError, TimeoutError, ResponseError}
Ok == "ok"
Weather == {Ok} \cup Faults               \* what the backend does with one call

Empty == "{}"                             \* CACHEOPS_REDIS = {}, the default
Configured == "conf"                      \* a mapping or a URL
ImproperlyConfigured == "ImproperlyConfigured"
AttributeError == "AttributeError"
\* redis_client = LazyRedis(): nothing constructed, the object's own class and dict
Unprovisioned == [class |-> "LazyRedis", dict |-> 0, constructed |-> 0]

VARIABLES
    cache,                  \* [Keys -> Values \cup {NoneV, LOCK}]: value at the key
    signal,                 \* [Keys -> Nat]: length of the list at key + ':signal'
    timers,                 \* pending expirations, in the order they were set
    degraded_client_set,    \* the module-level set of degraded clients
    DEGRADE_ON_FAILURE,     \* settings.CACHEOPS_DEGRADE_ON_FAILURE
    DEGRADE_TILL_REQUEST_FINISHED,  \* settings.CACHEOPS_DEGRADE_TILL_REQUEST_FINISHED
    pc,                     \* where each caller is
    key,                    \* the key of the caller's getting(key, ...)
    data,                   \* the local `data` of getting
    locked,                 \* the local `locked` of getting
    raised,                 \* the exception that left getting, or NoExc
    emitted,                \* what the last step wrote to warnings / the logger
    hist,                   \* per caller: what happened to it (observations only)
    obs,                    \* per key: what happened to it (observations only)
    replica,                \* [Keys -> ...]: value at the key on the replica server
    CACHEOPS_REDIS,         \* settings.CACHEOPS_REDIS: Empty or Configured
    holder,                 \* the LazyRedis object: its __class__, its __dict__,
                            \* and how many clients _setup has constructed
    client                  \* the local `client` of each thread's _setup

vars == <<cache, signal, timers, degraded_client_set, DEGRADE_ON_FAILURE,
          DEGRADE_TILL_REQUEST_FINISHED, pc, key, data, locked, raised,
          emitted, hist, obs, replica, CACHEOPS_REDIS, holder, client>>

server == <<cache, signal, timers>>
settings == <<DEGRADE_ON_FAILURE, DEGRADE_TILL_REQUEST_FINISHED>>
provision == <<CACHEOPS_REDIS, holder, client>>

\* ------------------------------------------------------------ outcomes
\* What one call does: the value it returns or the exception it raises, whether
\* the backend was contacted, and what it wrote to warnings / the logger.
Returned(v) == [val |-> v, exc |-> NoExc, att |-> TRUE, warn |-> NoExc, log |-> NoExc]
Raised(e, attempted) ==
    [val |-> NoneV, exc |-> e, att |-> attempted, warn |-> NoExc, log |-> NoExc]

\* a raw redis.StrictRedis command under backend weather w, returning v when it works
StrictRedis(w, v) == IF w = Ok THEN Returned(v) ELSE Raised(w, TRUE)

\* as handle_connection_failure, without the `except redis.TimeoutError` clause:
\* a timeout falls to the redis.RedisError clause
hcf_without_timeout_clause(r) ==
    IF r.exc = ConnectionError
      THEN [r EXCEPT !.val = NoneV, !.exc = NoExc, !.warn = r.exc]
    ELSE IF r.exc \in {TimeoutError, ResponseError, DegradedClientError}
      THEN [r EXCEPT !.val = NoneV, !.exc = NoExc, !.log = r.exc]
    ELSE r

\* the decorator body: each except clause ends without re-raising, so the
\* decorated call returns None
handle_connection_failure(r) ==
    IF r.exc = ConnectionError
      THEN [r EXCEPT !.val = NoneV, !.exc = NoExc, !.warn = r.exc]
    ELSE IF r.exc = TimeoutError
      THEN [r EXCEPT !.val = NoneV, !.exc = NoExc, !.warn = r.exc]
    ELSE IF r.exc \in {ResponseError, DegradedClientError}
      THEN [r EXCEPT !.val = NoneV, !.exc = NoExc, !.log = r.exc]
    ELSE r

\* the name handle_connection_failure as bound at import time
guard(r) == IF DEGRADE_ON_FAILURE THEN handle_connection_failure(r) ELSE r

\* as degrade_client_decorator, without the test of degraded_client_set
degrade_client_decorator_without_test(self, r) ==
    IF r.exc \in {ConnectionError, TimeoutError}
      THEN [out |-> r, set |-> degraded_client_set \cup {self}]
    ELSE [out |-> r, set |-> degraded_client_set]

\* the decorator body; r is what call() does if it is made.
\* out: what the decorated call does; set: degraded_client_set afterwards
degrade_client_decorator(self, r) ==
    IF self \in degraded_client_set
      THEN [out |-> Raised(DegradedClientError, FALSE), set |-> degraded_client_set]
    ELSE IF r.exc \in {ConnectionError, TimeoutError}
      THEN [out |-> r, set |-> degraded_client_set \cup {self}]
    ELSE [out |-> r, set |-> degraded_client_set]

persistent == DEGRADE_ON_FAILURE /\ DEGRADE_TILL_REQUEST_FINISHED

\* the name degrade_client_decorator as bound at import time
degrade(self, r) ==
    IF persistent THEN degrade_client_decorator(self, r)
    ELSE [out |-> r, set |-> degraded_client_set]

\* CacheopsRedis.get
CacheopsRedis_get(w, v) == guard(StrictRedis(w, v))

\* SafeRedis.get
SafeRedis_get(self, w, v) ==
    LET d == degrade(self, CacheopsRedis_get(w, v))
    IN  [out |-> guard(d.out), set |-> d.set]

\* SafeRedis.evalsha
SafeRedis_evalsha(self, w) == degrade(self, StrictRedis(w, NoneV))

\* Redis = SafeRedis if settings.CACHEOPS_DEGRADE_ON_FAILURE else CacheopsRedis
Redis_get(self, w, v) ==
    IF DEGRADE_ON_FAILURE THEN SafeRedis_get(self, w, v)
    ELSE [out |-> CacheopsRedis_get(w, v), set |-> degraded_client_set]

Redis_evalsha(self, w) ==
    IF DEGRADE_ON_FAILURE THEN SafeRedis_evalsha(self, w)
    ELSE [out |-> StrictRedis(w, NoneV), set |-> degraded_client_set]

\* ------------------------------------------------------------ the server
\* A pending expiration: what expires and the duration it was set with.  The
\* server's clock is not modelled; what is kept of it is the order in which
\* the expirations were set.
Timer(kind, id, dur) == [kind |-> kind, id |-> id, dur |-> dur]

Cancel(ts, kind, id) == SelectSeq(ts, LAMBDA t : ~(t.kind = kind /\ t.id = id))

\* An expiration set earlier with a duration no longer than this one's is due
\* no later than this one.
Due(i) == \A j \in 1..(i - 1) : timers[j].dur > timers[i].dur

\* the callers blocked in brpoplpush on the signal key of k
Blocked(k) == {c \in Callers : pc[c] = "blocked" /\ key[c] = k}

\* as lock_script, run on the replica's copy of the key
lock_script_on_replica(k, ex) ==
    LET is_set == replica[k] = NoneV
    IN  [ret    |-> is_set,
         cache  |-> IF is_set THEN [cache EXCEPT ![k] = LOCK] ELSE cache,
         signal |-> IF is_set THEN [signal EXCEPT ![k] = 0] ELSE signal,
         timers |-> IF is_set
                      THEN Append(Cancel(Cancel(timers, "lock", k), "signal", k),
                                  Timer("lock", k, ex))
                      ELSE timers]

\* as lock_script, with the NX of the SET left out
lock_script_without_nx(k, ex) ==
    [ret    |-> TRUE,
     cache  |-> [cache EXCEPT ![k] = LOCK],
     signal |-> [signal EXCEPT ![k] = 0],
     timers |-> Append(Cancel(Cancel(timers, "lock", k), "signal", k),
                       Timer("lock", k, ex))]

\* the acquire script: SET key LOCK NX EX ex, and DEL signal_key when it was set
lock_script(k, ex) ==
    LET is_set == cache[k] = NoneV
    IN  [ret    |-> is_set,
         cache  |-> IF is_set THEN [cache EXCEPT ![k] = LOCK] ELSE cache,
         signal |-> IF is_set THEN [signal EXCEPT ![k] = 0] ELSE signal,
         timers |-> IF is_set
                      THEN Append(Cancel(timers, "signal", k), Timer("lock", k, ex))
                      ELSE timers]

\* as unlock_script, with the DEL not guarded by the comparison with 'LOCK'
unlock_script_del_always(k) ==
    [cache  |-> [cache EXCEPT ![k] = NoneV],
     signal |-> [signal EXCEPT ![k] = @ + 1],
     timers |-> Append(Cancel(Cancel(timers, "lock", k), "signal", k),
                       Timer("signal", k, SIGNAL_EXPIRE))]

\* as unlock_script, with the conditional DEL left out
unlock_script_without_del(k) ==
    [cache  |-> cache,
     signal |-> [signal EXCEPT ![k] = @ + 1],
     timers |-> Append(Cancel(timers, "signal", k),
                       Timer("signal", k, SIGNAL_EXPIRE))]

\* the release script: delete the key when it holds the sentinel; LPUSH and
\* EXPIRE the signal key
unlock_script(k) ==
    LET del == cache[k] = LOCK
    IN  [cache  |-> IF del THEN [cache EXCEPT ![k] = NoneV] ELSE cache,
         signal |-> [signal EXCEPT ![k] = @ + 1],
         timers |-> Append(Cancel(IF del THEN Cancel(timers, "lock", k) ELSE timers,
                                  "signal", k),
                           Timer("signal", k, SIGNAL_EXPIRE))]

\* as brpoplpush_timeout, with a timeout that is not the lock's expiry
brpoplpush_timeout_short(c) == Timer("wait", c, SIGNAL_EXPIRE)

\* the timer of the blocking wait of caller c
brpoplpush_timeout(c) == Timer("wait", c, LOCK_TIMEOUT)

\* the expiry the acquire script is called with
lock_expiry == LOCK_TIMEOUT

\* ------------------------------------------------------------ observations
NoHist ==
    [holds |-> FALSE,          \* its acquire script set the sentinel and its
                               \* release script has not run since
     stored |-> FALSE]         \* it stored a value in its with-block

\* the exception warned about, and the exception logged, or NoExc
Quiet == [warn |-> NoExc, log |-> NoExc]
Emit(out) == [warn |-> out.warn, log |-> out.log]

NoObs ==
    [acqSinceRelease |-> 0,    \* acquisitions since the last release script
                               \* (2: two or more)
     acqSinceFree |-> 0,       \* acquisitions since the last release or expiry
                               \* (2: two or more)
     clean |-> TRUE,           \* so far: no backend fault, no expiry of the key,
                               \* no release without a store, no plain get
     owners |-> 0,             \* while clean: the calls of _get_or_lock that
                               \* returned None (2: two or more)
     live |-> NoneV,           \* the value last stored, until it expires
     cleared |-> "no"]         \* "cleared": the owner released the sentinel
                               \* without a store, and no _get_or_lock has
                               \* returned since; "misread": and the next one to
                               \* return did not acquire the key

TypeOK ==
    /\ cache \in [Keys -> Values \cup {NoneV, LOCK}]
    /\ signal \in [Keys -> Nat]
    /\ degraded_client_set \subseteq Clients
    /\ pc \in [Callers -> {"idle", "get", "lock", "wait", "blocked",
                           "body", "release", "done",
                           "setup", "built", "classed", "used"}]
    /\ data \in [Callers -> Values \cup {NoneV, LOCK}]
    /\ locked \in [Callers -> BOOLEAN]
    /\ replica \in [Keys -> Values \cup {NoneV, LOCK}]
    /\ CACHEOPS_REDIS \in {Empty, Configured}
    /\ holder.class \in {"LazyRedis", "Redis"}
    /\ holder.dict \in Nat /\ holder.constructed \in Nat
    /\ client \in [Callers -> Nat]

Init ==
    /\ cache = [k \in Keys |-> NoneV]
    /\ signal = [k \in Keys |-> 0]
    /\ timers = <<>>
    /\ degraded_client_set = {}
    /\ DEGRADE_ON_FAILURE \in BOOLEAN
    \* read only when CACHEOPS_DEGRADE_ON_FAILURE is set
    /\ DEGRADE_TILL_REQUEST_FINISHED \in (IF DEGRADE_ON_FAILURE THEN BOOLEAN ELSE {FALSE})
    /\ pc = [c \in Callers |-> "idle"]
    /\ key = [c \in Callers |-> "k1"]
    /\ data = [c \in Callers |-> NoneV]
    /\ locked = [c \in Callers |-> FALSE]
    /\ raised = [c \in Callers |-> NoExc]
    /\ emitted = Quiet
    /\ hist = [c \in Callers |-> NoHist]
    /\ obs = [k \in Keys |-> NoObs]
    /\ replica = [k \in Keys |-> NoneV]
    /\ CACHEOPS_REDIS = Configured
    /\ holder = Unprovisioned
    /\ client = [c \in Callers |-> 0]

\* --------------------------------------------------------------- getting
\* what is kept of a caller once getting has returned: its locals are gone
Gone(h) == [h EXCEPT !.stored = FALSE]

\* getting leaves with exception e (NoExc: normally)
Leave(c, e) ==
    /\ pc' = [pc EXCEPT ![c] = "done"]
    /\ raised' = [raised EXCEPT ![c] = e]
    /\ data' = [data EXCEPT ![c] = NoneV]
    /\ locked' = [locked EXCEPT ![c] = FALSE]

\* getting(key, lock=False): `yield self.get(key)`
PlainGet(c, k, w) ==
    /\ pc[c] = "idle"
    /\ key' = [key EXCEPT ![c] = k]
    /\ LET g == Redis_get(redis_client, w, cache[k])
       IN  /\ degraded_client_set' = g.set
           /\ emitted' = Emit(g.out)
           /\ IF g.out.exc = NoExc
                THEN /\ data' = [data EXCEPT ![c] = g.out.val]
                     /\ pc' = [pc EXCEPT ![c] = "body"]
                     /\ UNCHANGED <<raised, locked>>
                ELSE Leave(c, g.out.exc)
    /\ obs' = [obs EXCEPT ![k].clean = FALSE, ![k].owners = 0]
    /\ UNCHANGED <<server, settings, replica, provision, hist>>

\* _get_or_lock ends: h is what the decorated method does.  In getting,
\* `locked = data is None` and the with-block is entered, or the exception
\* leaves getting with locked still False.
LeaveGetOrLock(c, h) ==
    IF h.exc = NoExc
      THEN /\ data' = [data EXCEPT ![c] = h.val]
           /\ locked' = [locked EXCEPT ![c] = (h.val = NoneV)]
           /\ pc' = [pc EXCEPT ![c] = "body"]
           /\ UNCHANGED raised
      ELSE Leave(c, h.exc)

UpTo2(n) == IF n > 2 THEN 2 ELSE n

\* the observations when _get_or_lock of caller c on key k ends as h does;
\* acquired: its acquire script has just set the sentinel
Seen(c, k, h, acquired) ==
    IF h.exc # NoExc
      THEN /\ hist' = [hist EXCEPT ![c] = Gone(@)]
           /\ obs' = [obs EXCEPT ![k].clean = FALSE, ![k].owners = 0]
      ELSE /\ hist' = [hist EXCEPT ![c].holds = acquired]
           /\ obs' = [obs EXCEPT
                ![k].acqSinceRelease = IF acquired THEN UpTo2(@ + 1) ELSE @,
                ![k].acqSinceFree = IF acquired THEN UpTo2(@ + 1) ELSE @,
                ![k].clean = @ /\ (h.val = NoneV => acquired),
                ![k].owners = IF ~(obs[k].clean /\ (h.val = NoneV => acquired)) THEN 0
                              ELSE IF h.val = NoneV THEN UpTo2(@ + 1) ELSE @,
                ![k].cleared = IF @ = "cleared" /\ ~acquired THEN "misread" ELSE "no"]

\* as branch, without the comparison with b'LOCK'
branch_without_sentinel_test(v) ==
    IF v = NoneV THEN "lock" ELSE "return"

\* the branch of the loop on the value read: lines 102 to 106
branch(v) ==
    IF v = NoneV THEN "lock"
    ELSE IF v # LOCK THEN "return"
    ELSE "wait"

\* `data = self.get(key)` and the branch on it; from "idle" this is the first
\* pass of the loop of getting(key, lock=True)
Get(c, k, w) ==
    /\ \/ pc[c] = "idle"
       \/ pc[c] = "get" /\ k = key[c]
    /\ key' = [key EXCEPT ![c] = k]
    /\ LET g == Redis_get(redis_client, w, cache[k])
           h == guard(g.out)
       IN  /\ degraded_client_set' = g.set
           /\ emitted' = Emit(h)
           /\ IF g.out.exc # NoExc \/ branch(g.out.val) = "return"
                THEN /\ LeaveGetOrLock(c, h)
                     /\ Seen(c, k, h, FALSE)
                ELSE /\ pc' = [pc EXCEPT ![c] = branch(g.out.val)]
                     /\ obs' = [obs EXCEPT ![k].clean = @ /\ w = Ok,
                                           ![k].owners = IF w = Ok THEN @ ELSE 0]
                     /\ UNCHANGED <<data, locked, raised, hist>>
    /\ UNCHANGED <<server, settings, replica, provision>>

\* `if self._lock(keys=[key, signal_key], args=[LOCK_TIMEOUT]): return None`
Lock(c, w) ==
    /\ pc[c] = "lock"
    /\ LET k == key[c]
           e == Redis_evalsha(redis_client, w)
           s == lock_script(k, lock_expiry)
           h == guard(e.out)
       IN  /\ degraded_client_set' = e.set
           /\ emitted' = Emit(h)
           /\ IF e.out.exc # NoExc
                THEN /\ LeaveGetOrLock(c, h)
                     /\ Seen(c, k, h, FALSE)
                     /\ UNCHANGED server
              ELSE /\ cache' = s.cache
                   /\ signal' = s.signal
                   /\ timers' = s.timers
                   /\ IF s.ret
                        THEN /\ LeaveGetOrLock(c, guard(Returned(NoneV)))
                             /\ Seen(c, k, guard(Returned(NoneV)), TRUE)
                        ELSE /\ pc' = [pc EXCEPT ![c] = "wait"]
                             /\ UNCHANGED <<data, locked, raised, hist, obs>>
    /\ UNCHANGED <<settings, replica, provision, key>>

\* `self.brpoplpush(signal_key, signal_key, timeout=LOCK_TIMEOUT)`: returns at
\* once when the list holds an element (which goes back on the same list),
\* blocks otherwise
Wait(c, w) ==
    /\ pc[c] = "wait"
    /\ LET k == key[c]
           r == StrictRedis(w, NoneV)
           h == guard(r)
       IN  /\ emitted' = Emit(h)
           /\ IF r.exc # NoExc
                THEN /\ LeaveGetOrLock(c, h)
                     /\ Seen(c, k, h, FALSE)
                     /\ UNCHANGED timers
              ELSE IF signal[k] > 0
                THEN /\ pc' = [pc EXCEPT ![c] = "get"]
                     /\ UNCHANGED <<timers, data, locked, raised, hist, obs>>
              ELSE /\ pc' = [pc EXCEPT ![c] = "blocked"]
                   /\ timers' = Append(timers, brpoplpush_timeout(c))
                   /\ UNCHANGED <<data, locked, raised, hist, obs>>
    /\ UNCHANGED <<cache, signal, degraded_client_set, settings, replica, provision, key>>

\* the caller's with-block.  On a miss (data is None) the caller computes the
\* value and stores it at the key with the real timeout.
Store(c, v) ==
    /\ pc[c] = "body"
    /\ data[c] = NoneV
    /\ ~hist[c].stored
    /\ cache' = [cache EXCEPT ![key[c]] = v]
    /\ timers' = Cancel(timers, "lock", key[c])
    /\ hist' = [hist EXCEPT ![c].stored = TRUE]
    /\ obs' = [obs EXCEPT ![key[c]].live = v, ![key[c]].cleared = "no"]
    /\ emitted' = Quiet
    /\ UNCHANGED <<signal, degraded_client_set, settings, replica, provision, pc, key, data,
                   locked, raised>>

\* as BodyExit, with the release after the yield instead of in a finally clause
BodyExit_without_finally(c, err) ==
    /\ pc[c] = "body"
    /\ IF locked[c] /\ ~err
         THEN /\ pc' = [pc EXCEPT ![c] = "release"]
              /\ raised' = [raised EXCEPT ![c] = NoExc]
              /\ UNCHANGED <<data, locked, hist>>
         ELSE /\ Leave(c, IF err THEN AppError ELSE NoExc)
              /\ hist' = [hist EXCEPT ![c] = Gone(@)]
    /\ emitted' = Quiet
    /\ UNCHANGED <<server, degraded_client_set, settings, replica, provision, key, obs>>

\* the with-block ends, by its end or by an exception of the computation:
\* `finally: if locked: self._release_lock(key)`
BodyExit(c, err) ==
    /\ pc[c] = "body"
    /\ IF locked[c]
         THEN /\ pc' = [pc EXCEPT ![c] = "release"]
              /\ raised' = [raised EXCEPT ![c] = IF err THEN AppError ELSE NoExc]
              /\ UNCHANGED <<data, locked, hist>>
         ELSE /\ Leave(c, IF err THEN AppError ELSE NoExc)
              /\ hist' = [hist EXCEPT ![c] = Gone(@)]
    /\ emitted' = Quiet
    /\ UNCHANGED <<server, degraded_client_set, settings, replica, provision, key, obs>>

\* as Served, with the pushed element handed to one blocked client only
Served_one_waiter(c, woken) ==
    [x \in Callers |->
        IF x = c THEN "done"
        ELSE IF woken # {} /\ x = (CHOOSE y \in woken : TRUE) THEN "get"
        ELSE pc[x]]

\* where the callers are after a release by c that wakes `woken`: the server
\* serves every client blocked on the signal key with the pushed element
Served(c, woken) ==
    [x \in Callers |-> IF x = c THEN "done" ELSE IF x \in woken THEN "get" ELSE pc[x]]

\* _release_lock(key): `self._unlock(keys=[key, signal_key])`
Release(c, w) ==
    /\ pc[c] = "release"
    /\ LET k == key[c]
           e == Redis_evalsha(redis_client, w)
           h == guard(e.out)
           u == unlock_script(k)
           woken == Blocked(k)
       IN  /\ degraded_client_set' = e.set
           /\ emitted' = Emit(h)
           /\ raised' = [raised EXCEPT ![c] = IF h.exc # NoExc THEN h.exc ELSE @]
           /\ data' = [data EXCEPT ![c] = NoneV]
           /\ locked' = [locked EXCEPT ![c] = FALSE]
           /\ pc' = Served(c, IF e.out.exc # NoExc THEN {} ELSE woken)
           /\ IF e.out.exc # NoExc
                THEN /\ hist' = [hist EXCEPT ![c] = Gone(@)]
                     /\ obs' = [obs EXCEPT ![k].clean = FALSE, ![k].owners = 0]
                     /\ UNCHANGED server
                ELSE /\ cache' = u.cache
                     /\ signal' = u.signal
                     /\ timers' = SelectSeq(u.timers,
                            LAMBDA t : ~(t.kind = "wait" /\ t.id \in woken))
                     /\ hist' = [hist EXCEPT ![c] = NoHist]
                     /\ obs' = [obs EXCEPT
                          ![k].acqSinceRelease = 0,
                          ![k].acqSinceFree = 0,
                          ![k].cleared = IF ~hist[c].stored /\ cache[k] = LOCK
                                           THEN "cleared" ELSE @,
                          ![k].clean = @ /\ hist[c].stored,
                          ![k].owners = IF hist[c].stored THEN @ ELSE 0]
    /\ UNCHANGED <<settings, replica, provision, key>>

\* ------------------------------------------------------------- the clock
\* the i-th pending expiration falls due
Expire(i) ==
    /\ i \in 1..Len(timers)
    /\ Due(i)
    /\ LET t == timers[i]
           rest == SubSeq(timers, 1, i - 1) \o SubSeq(timers, i + 1, Len(timers))
       IN  /\ timers' = rest
           /\ IF t.kind = "lock"
                THEN /\ cache' = [cache EXCEPT ![t.id] = NoneV]
                     /\ obs' = [obs EXCEPT ![t.id].acqSinceFree = 0,
                                           ![t.id].clean = FALSE, ![t.id].owners = 0]
                     /\ UNCHANGED <<signal, pc, hist>>
              ELSE IF t.kind = "signal"
                THEN /\ signal' = [signal EXCEPT ![t.id] = 0]
                     /\ UNCHANGED <<cache, pc, hist, obs>>
              ELSE /\ pc' = [pc EXCEPT ![t.id] = "get"]
                   /\ UNCHANGED <<cache, signal, hist, obs>>
    /\ emitted' = Quiet
    /\ UNCHANGED <<degraded_client_set, settings, replica, provision, key, data, locked, raised>>

\* a stored value reaches the end of its own timeout
ExpireValue(k) ==
    /\ cache[k] \in Values
    /\ cache' = [cache EXCEPT ![k] = NoneV]
    /\ obs' = [obs EXCEPT ![k].acqSinceFree = 0, ![k].live = NoneV,
                          ![k].clean = FALSE, ![k].owners = 0]
    /\ emitted' = Quiet
    /\ UNCHANGED <<signal, timers, degraded_client_set, settings, replica, provision, pc, key,
                   data, locked, raised, hist>>

\* as clear_degraded_client_marks, without the call of clear()
clear_degraded_client_marks_without_clear ==
    /\ persistent
    /\ UNCHANGED degraded_client_set
    /\ emitted' = Quiet
    /\ UNCHANGED <<server, settings, replica, provision, pc, key, data, locked, raised, hist, obs>>

\* request_started / request_finished
clear_degraded_client_marks ==
    /\ persistent
    /\ degraded_client_set' = {}
    /\ emitted' = Quiet
    /\ UNCHANGED <<server, settings, replica, provision, pc, key, data, locked, raised, hist, obs>>

\* the steps of the callers Cs under the backend weathers W, and of the clock
Steps(Cs, W) ==
    \/ \E c \in Cs, k \in Keys, w \in W : PlainGet(c, k, w)
    \/ \E c \in Cs, k \in Keys, w \in W : Get(c, k, w)
    \/ \E c \in Cs, w \in W : Lock(c, w)
    \/ \E c \in Cs, w \in W : Wait(c, w)
    \/ \E c \in Cs, v \in Values : Store(c, v)
    \/ \E c \in Cs, err \in BOOLEAN : BodyExit(c, err)
    \/ \E c \in Cs, w \in W : Release(c, w)
    \/ \E i \in 1..Len(timers) : Expire(i)
    \/ \E k \in Keys : ExpireValue(k)

\* backend calls may fail, under every setting
Next == Steps(FaultyCallers, Weather) \/ clear_degraded_client_marks

Spec == Init /\ [][Next]_vars

\* backend calls may fail, under CACHEOPS_DEGRADE_TILL_REQUEST_FINISHED
PersistentInit == Init /\ persistent

PersistentSpec == PersistentInit /\ [][Next]_vars

\* the protocol on a backend that answers every call, under the default settings
HealthyInit == Init /\ ~DEGRADE_ON_FAILURE

HealthyNext == Steps(Callers, {Ok})

HealthySpec == HealthyInit /\ [][HealthyNext]_vars

\* time passes, and a caller inside _get_or_lock keeps running; the callers'
\* with-blocks may stall for ever (an owner that crashes)
Tick == \E i \in 1..Len(timers) : Expire(i)

Loop(c) ==
    \/ pc[c] = "get" /\ Get(c, key[c], Ok)
    \/ Lock(c, Ok)
    \/ Wait(c, Ok)

CrashNext == Steps(CrashCallers, {Ok})

CrashSpec ==
    /\ HealthyInit
    /\ [][CrashNext]_vars
    /\ WF_vars(Tick)
    /\ \A c \in CrashCallers : WF_vars(Loop(c))

\* ------------------------------------------------------------- LazyRedis
\* The threads of this part use attributes of redis_client = LazyRedis().
\* _setup is not atomic: a thread is "setup" once inside __getattr__ or
\* __setattr__, "built" once it has constructed its client, "classed" once it
\* has swapped __class__, and "used" when the use is over.
InSetup == {"setup", "built", "classed"}

\* the protocol's variables, which no step of this part touches
protocol == <<server, degraded_client_set, settings, key, data, locked,
              emitted, hist, obs, replica>>

\* Django's settings are read at each use (Settings.__getattribute__)
Configure(v) ==
    /\ CACHEOPS_REDIS # v
    /\ CACHEOPS_REDIS' = v
    /\ UNCHANGED <<protocol, pc, raised, holder, client>>

\* thread t reads or assigns an attribute of redis_client.  __getattr__ and
\* __setattr__ are LazyRedis's: they run only while that is the object's class.
\* After the swap the lookup is the client's own, on the swapped __dict__.
Use(t) ==
    /\ pc[t] \in {"idle", "used"}
    /\ IF holder.class = "LazyRedis"
         THEN /\ pc' = [pc EXCEPT ![t] = "setup"]
              /\ raised' = [raised EXCEPT ![t] = NoExc]
         ELSE /\ pc' = [pc EXCEPT ![t] = "used"]
              /\ raised' = [raised EXCEPT ![t] =
                     IF holder.dict = 0 THEN AttributeError ELSE NoExc]
    /\ UNCHANGED <<protocol, CACHEOPS_REDIS, holder, client>>

\* _setup: `if not settings.CACHEOPS_REDIS: raise ImproperlyConfigured(...)`,
\* else `client = Redis(**settings.CACHEOPS_REDIS)` (or Redis.from_url)
Construct(t) ==
    /\ pc[t] = "setup"
    /\ IF CACHEOPS_REDIS = Empty
         THEN /\ pc' = [pc EXCEPT ![t] = "used"]
              /\ raised' = [raised EXCEPT ![t] = ImproperlyConfigured]
              /\ UNCHANGED <<holder, client>>
         ELSE /\ holder' = [holder EXCEPT !.constructed = @ + 1]
              /\ client' = [client EXCEPT ![t] = holder.constructed + 1]
              /\ pc' = [pc EXCEPT ![t] = "built"]
              /\ UNCHANGED raised
    /\ UNCHANGED <<protocol, CACHEOPS_REDIS>>

\* as SetClass, without the assignment of __class__
SetClass_without_swap(t) ==
    /\ pc[t] = "built"
    /\ pc' = [pc EXCEPT ![t] = "classed"]
    /\ UNCHANGED <<protocol, CACHEOPS_REDIS, holder, client, raised>>

\* _setup: `object.__setattr__(self, '__class__', client.__class__)`
SetClass(t) ==
    /\ pc[t] = "built"
    /\ holder' = [holder EXCEPT !.class = "Redis"]
    /\ pc' = [pc EXCEPT ![t] = "classed"]
    /\ UNCHANGED <<protocol, CACHEOPS_REDIS, client, raised>>

\* _setup: `object.__setattr__(self, '__dict__', client.__dict__)`, and the
\* getattr / setattr that follows it
SetDict(t) ==
    /\ pc[t] = "classed"
    /\ holder' = [holder EXCEPT !.dict = client[t]]
    /\ client' = [client EXCEPT ![t] = 0]
    /\ pc' = [pc EXCEPT ![t] = "used"]
    /\ UNCHANGED <<protocol, CACHEOPS_REDIS, raised>>

LazyNext ==
    \/ \E v \in {Empty, Configured} : Configure(v)
    \/ \E t \in LazyCallers : Use(t)
    \/ \E t \in LazyCallers : Construct(t)
    \/ \E t \in LazyCallers : SetClass(t)
    \/ \E t \in LazyCallers : SetDict(t)

LazySpec == HealthyInit /\ [][LazyNext]_vars

\* ------------------------------------------------------- ReplicaProxyRedis
\* With CACHEOPS_REDIS_REPLICA set, redis_client is a ReplicaProxyRedis and
\* redis_replica a CacheopsRedis on the replica server.

\* redis_replica.get under replica weather wr, the replica holding vr
redis_replica_get(wr, vr) == CacheopsRedis_get(wr, vr)

\* ReplicaProxyRedis.get: the replica's answer when redis_replica.get returns;
\* when it raises, the except clauses (TimeoutError: logged, ConnectionError:
\* passed, other RedisError: logged) and then the primary's get
ReplicaProxyRedis_get(self, wr, vr, w, v) ==
    LET rep == redis_replica_get(wr, vr)
        sup == Redis_get(self, w, v)
        logged == IF rep.exc \in {TimeoutError, ResponseError} THEN rep.exc ELSE NoExc
    IN  IF rep.exc = NoExc
          THEN [out |-> rep, set |-> degraded_client_set]
          ELSE [out |-> [sup.out EXCEPT !.log = IF @ = NoExc THEN logged ELSE @],
                set |-> sup.set]

\* getting(key, lock=False) on a ReplicaProxyRedis
ProxyPlainGet(c, k, wr, w) ==
    /\ pc[c] = "idle"
    /\ key' = [key EXCEPT ![c] = k]
    /\ LET g == ReplicaProxyRedis_get(redis_client, wr, replica[k], w, cache[k])
       IN  /\ degraded_client_set' = g.set
           /\ emitted' = Emit(g.out)
           /\ IF g.out.exc = NoExc
                THEN /\ data' = [data EXCEPT ![c] = g.out.val]
                     /\ pc' = [pc EXCEPT ![c] = "body"]
                     /\ UNCHANGED <<raised, locked>>
                ELSE Leave(c, g.out.exc)
    /\ obs' = [obs EXCEPT ![k].clean = FALSE, ![k].owners = 0]
    /\ UNCHANGED <<server, settings, replica, provision, hist>>

\* `data = self.get(key)` of _get_or_lock on a ReplicaProxyRedis, and the
\* branch on it
ProxyGet(c, k, wr, w) ==
    /\ \/ pc[c] = "idle"
       \/ pc[c] = "get" /\ k = key[c]
    /\ key' = [key EXCEPT ![c] = k]
    /\ LET g == ReplicaProxyRedis_get(redis_client, wr, replica[k], w, cache[k])
           h == guard(g.out)
       IN  /\ degraded_client_set' = g.set
           /\ emitted' = Emit(h)
           /\ IF g.out.exc # NoExc \/ branch(g.out.val) = "return"
                THEN /\ LeaveGetOrLock(c, h)
                     /\ hist' = [hist EXCEPT ![c] = IF h.exc # NoExc THEN Gone(@)
                                                    ELSE [@ EXCEPT !.holds = FALSE]]
                ELSE /\ pc' = [pc EXCEPT ![c] = branch(g.out.val)]
                     /\ UNCHANGED <<data, locked, raised, hist>>
    /\ obs' = [obs EXCEPT ![k].clean = FALSE, ![k].owners = 0]
    /\ UNCHANGED <<server, settings, replica, provision>>

\* the replica server catches up with the primary on key k
Replicate(k) ==
    /\ replica[k] # cache[k]
    /\ replica' = [replica EXCEPT ![k] = cache[k]]
    /\ emitted' = Quiet
    /\ UNCHANGED <<server, degraded_client_set, settings, provision, pc, key,
                   data, locked, raised, hist, obs>>

\* as Steps, for a ReplicaProxyRedis: Wr are the weathers of the replica
ReplicaSteps(Cs, Wr, W) ==
    \/ \E c \in Cs, k \in Keys, wr \in Wr, w \in W : ProxyPlainGet(c, k, wr, w)
    \/ \E c \in Cs, k \in Keys, wr \in Wr, w \in W : ProxyGet(c, k, wr, w)
    \/ \E c \in Cs, w \in W : Lock(c, w)
    \/ \E c \in Cs, w \in W : Wait(c, w)
    \/ \E c \in Cs, v \in Values : Store(c, v)
    \/ \E c \in Cs, err \in BOOLEAN : BodyExit(c, err)
    \/ \E c \in Cs, w \in W : Release(c, w)
    \/ \E i \in 1..Len(timers) : Expire(i)
    \/ \E k \in Keys : ExpireValue(k)
    \/ \E k \in Keys : Replicate(k)

ReplicaNext ==
    ReplicaSteps(ReplicaCallers, Weather, Weather) \/ clear_degraded_client_marks

ReplicaSpec == Init /\ [][ReplicaNext]_vars

\* a primary that answers every call, under the default settings; reads of the
\* replica may fail
HealthyReplicaNext == ReplicaSteps(ReplicaCallers, Weather, {Ok})

HealthyReplicaSpec == HealthyInit /\ [][HealthyReplicaNext]_vars

\* ================================================================ claims
\* C1, as stated: of two acquisitions of a key, a release of the key lies
\* between: never two acquisitions since the last release script.
C1_Original == \A k \in Keys : obs[k].acqSinceRelease <= 1

\* C1, amended: of two acquisitions of a key, a release of the key or an expiry
\* of the key (of the sentinel, or of a value stored over it) lies between.
C1_Amended == \A k \in Keys : obs[k].acqSinceFree <= 1

C1_Witness ==
    \E c1 \in Callers, c2 \in Callers :
        /\ hist[c1].holds /\ pc[c1] = "body" /\ cache[key[c1]] = LOCK
        /\ key[c2] = key[c1] /\ pc[c2] \in {"wait", "blocked"}

TimedOut(c) ==
    /\ pc[c] = "blocked"
    /\ pc'[c] = "get"
    /\ signal' = signal

Position(kind, id) ==
    CHOOSE i \in 1..Len(timers) : timers[i].kind = kind /\ timers[i].id = id

C3_Theorem ==
    /\ \A c \in CrashCallers : (pc[c] = "blocked") ~> (pc[c] # "blocked")
    /\ \A c \in CrashCallers : (pc[c] = "blocked") ~> (pc[c] \in {"body", "release", "done"})
    /\ [][\A c \in CrashCallers : TimedOut(c) =>
            \A j \in 1..Len(timers) :
                timers[j].kind = "lock" /\ timers[j].id = key[c]
                    => j > Position("wait", c)]_vars
    /\ [](\A i \in 1..Len(timers) :
            timers[i].kind \in {"lock", "wait"} => timers[i].dur = LOCK_TIMEOUT)

C3_Witness ==
    \E c \in CrashCallers, o \in CrashCallers :
        /\ pc[c] = "blocked" /\ key[o] = key[c]
        /\ pc[o] = "body" /\ hist[o].holds /\ ~hist[o].stored
        /\ cache[key[c]] = NoneV

\* C4: a stored value stays at the key, through the release, until it expires
\* or is replaced; and a read of a key that holds a value ends the call in the
\* same step with that value and without the lock, the server untouched.
C4_Theorem ==
    /\ [](\A k \in Keys : obs[k].live # NoneV => cache[k] = obs[k].live)
    /\ [][\A c \in Callers, k \in Keys :
            cache[k] \in Values /\ (Get(c, k, Ok) \/ PlainGet(c, k, Ok))
              => /\ pc'[c] = "body"
                 /\ data'[c] = cache[k]
                 /\ ~locked'[c]
                 /\ UNCHANGED server]_vars

C4_Witness ==
    \E k \in Keys, c \in Callers :
        /\ obs[k].clean /\ obs[k].owners = 1
        /\ \A x \in Callers : ~locked[x]
        /\ key[c] = k /\ pc[c] = "body" /\ data[c] = cache[k] /\ cache[k] \in Values
        /\ signal[k] = 0

\* C5: after the owner released the sentinel without a store the key is
\* absent, the next _get_or_lock to return has acquired the key, and no
\* _get_or_lock returns the sentinel.
C5_Theorem ==
    /\ [](\A k \in Keys : obs[k].cleared = "cleared" => cache[k] = NoneV)
    /\ [](\A k \in Keys : obs[k].cleared # "misread")
    /\ [][\A c \in Callers, k \in Keys :
            Get(c, k, Ok) /\ pc'[c] = "body" => data'[c] # LOCK]_vars

C5_Witness ==
    \E k \in Keys, c \in Callers :
        /\ obs[k].cleared = "cleared"
        /\ key[c] = k /\ pc[c] = "lock"

\* C6: the key holds the sentinel only while a caller's acquire script has set
\* it and that caller's release script has not run.
C6_Theorem ==
    \A k \in Keys : cache[k] = LOCK => \E c \in Callers : key[c] = k /\ hist[c].holds

C6_Witness ==
    \E c \in Callers :
        cache[key[c]] = LOCK /\ hist[c].holds /\ pc[c] = "release" /\ raised[c] = NoExc

\* C7: an owner leaves its with-block only into _release_lock, whether the
\* block ended or raised; when _release_lock has run the key does not hold the
\* sentinel and the signal list has one element more.
C7_Theorem ==
    /\ [][\A c \in Callers :
            /\ pc[c] = "body" /\ locked[c] /\ pc'[c] # "body" => pc'[c] = "release"
            /\ pc[c] = "release" /\ pc'[c] # "release"
                 => /\ cache'[key[c]] # LOCK
                    /\ signal'[key[c]] = signal[key[c]] + 1]_vars
    /\ [](\A c \in Callers : pc[c] = "done" => ~hist[c].holds)

C7_Witness ==
    \E c \in Callers :
        /\ pc[c] = "done" /\ raised[c] = AppError
        /\ \A x \in Callers \ {c} : pc[x] = "idle"
        /\ obs[key[c]].cleared = "cleared"
        /\ cache[key[c]] = NoneV /\ signal[key[c]] = 1

\* a decorated call reaches the backend
Reached == ~(persistent /\ redis_client \in degraded_client_set)

\* caller c's get / _get_or_lock makes a backend call that fails as w
FailsInGet(c, w) == \E k \in Keys : Reached /\ (Get(c, k, w) \/ PlainGet(c, k, w))
FailsInLock(c, w) == (Reached /\ Lock(c, w)) \/ Wait(c, w)

\* C8: under CACHEOPS_DEGRADE_ON_FAILURE a connection or timeout error of the
\* backend in get or _get_or_lock is warned about and the call returns None;
\* otherwise it leaves getting as it is.
C8_Theorem ==
    [][\A c \in Callers, w \in {ConnectionError, TimeoutError} :
        pc'[c] # pc[c] /\ (FailsInGet(c, w) \/ FailsInLock(c, w)) =>
            IF DEGRADE_ON_FAILURE
              THEN /\ raised'[c] = NoExc
                   /\ emitted' = [warn |-> w, log |-> NoExc]
                   /\ data'[c] = NoneV
                   /\ pc'[c] \in {"lock", "body"}
                   /\ FailsInLock(c, w) => pc'[c] = "body" /\ locked'[c]
              ELSE /\ pc'[c] = "done"
                   /\ raised'[c] = w
                   /\ emitted' = Quiet]_vars

C8_Witness ==
    \E c \in Callers :
        /\ DEGRADE_ON_FAILURE
        /\ emitted.warn = TimeoutError
        /\ pc[c] = "body" /\ locked[c] /\ data[c] = NoneV /\ ~hist[c].holds

\* C9, as stated: under CACHEOPS_DEGRADE_ON_FAILURE another error of the
\* backend in a guarded operation is logged and leaves getting.
C9_Claim ==
    [][\A c \in Callers :
        /\ DEGRADE_ON_FAILURE
        /\ \/ FailsInGet(c, ResponseError)
           \/ FailsInLock(c, ResponseError)
           \/ Reached /\ Release(c, ResponseError)
        => /\ emitted'.log = ResponseError
           /\ pc'[c] = "done"
           /\ raised'[c] = ResponseError]_vars

\* C10, as stated: under CACHEOPS_DEGRADE_TILL_REQUEST_FINISHED a connection or
\* timeout error of a get or of a script marks the client as degraded.
C10_Claim ==
    [][\A c \in Callers, w \in {ConnectionError, TimeoutError} :
        /\ persistent
        /\ \/ FailsInGet(c, w)
           \/ Reached /\ Lock(c, w)
           \/ Reached /\ Release(c, w)
        => redis_client \in degraded_client_set']_vars

\* the client is marked: its decorated calls are short-circuited
Marked == persistent /\ redis_client \in degraded_client_set

\* caller c makes a decorated call (get, acquire script or release script)
\* while the backend would answer it as w
Calls(c, w) ==
    /\ pc'[c] # pc[c]
    /\ \/ \E k \in Keys : Get(c, k, w) \/ PlainGet(c, k, w)
       \/ Lock(c, w)
       \/ Release(c, w)

\* what a value at a key can be
Stored == Values \cup {NoneV, LOCK}

\* C11: while the client is in degraded_client_set, no get and no script
\* execution contacts the backend: the call is not attempted and ends the same
\* whatever the backend would answer, and a caller's step from a position where
\* it makes such a call leaves the server and the set as they are, ends with
\* DegradedClientError inside the decorators, and is the step the call makes
\* on a backend that answers.
C11_Theorem ==
    /\ [](Marked => \A w \in Weather, v \in Stored :
            /\ ~Redis_get(redis_client, w, v).out.att
            /\ ~Redis_evalsha(redis_client, w).out.att
            /\ Redis_get(redis_client, w, v) = Redis_get(redis_client, Ok, v)
            /\ Redis_evalsha(redis_client, w) = Redis_evalsha(redis_client, Ok))
    /\ [][\A c \in FaultyCallers :
            /\ Marked
            /\ pc'[c] # pc[c]
            /\ pc[c] \in {"idle", "get", "lock", "release"}
            => /\ UNCHANGED server
               /\ UNCHANGED degraded_client_set
               /\ emitted' = [warn |-> NoExc, log |-> DegradedClientError]
               /\ Calls(c, Ok)]_vars

C11_Witness ==
    \E c \in FaultyCallers :
        /\ Marked
        /\ emitted.log = DegradedClientError
        /\ pc[c] = "body" /\ locked[c] /\ ~hist[c].holds

\* C12, as stated: a decorated call on a client in degraded_client_set ends
\* getting with DegradedClientError.
C12_Claim ==
    [][\A c \in FaultyCallers, w \in Weather :
        Marked /\ Calls(c, w)
          => pc'[c] = "done" /\ raised'[c] = DegradedClientError]_vars

\* C13: clear_degraded_client_marks empties the set; no other step takes a
\* client out of it, whatever the backend answers; and with the set empty every
\* get and script execution is attempted again.
C13_Theorem ==
    /\ [][clear_degraded_client_marks => degraded_client_set' = {}]_vars
    /\ [][~(degraded_client_set \subseteq degraded_client_set')
            => clear_degraded_client_marks]_vars
    /\ [](persistent /\ degraded_client_set = {} => \A w \in Weather, v \in Stored :
            /\ Redis_get(redis_client, w, v).out.att
            /\ Redis_evalsha(redis_client, w).out.att)

C13_Witness ==
    \E c \in FaultyCallers, o \in FaultyCallers :
        /\ persistent /\ degraded_client_set = {}
        /\ pc[c] = "body" /\ locked[c] /\ ~hist[c].holds
        /\ pc[o] = "body" /\ hist[o].holds /\ cache[key[o]] = LOCK

\* the release script of caller c runs on the server
Unlocks(c) == ~Marked /\ Release(c, Ok)

\* C17, as stated: a release script that deletes the sentinel is run by a
\* caller whose own acquire script set the sentinel.
C17_Claim ==
    [][\A c \in FaultyCallers :
        Unlocks(c) /\ cache[key[c]] = LOCK => hist[c].holds]_vars

\* C18: the acquire script on a key that is present changes nothing and
\* returns false, and on an absent key sets the sentinel; the release script
\* leaves a real value where it is; no acquire, wait or release step changes
\* a key that holds a real value, and a wait step changes no cache key.
C18_Theorem ==
    /\ [](\A k \in Keys :
            LET s == lock_script(k, lock_expiry)
            IN  IF cache[k] = NoneV
                  THEN s.ret /\ s.cache = [cache EXCEPT ![k] = LOCK]
                  ELSE ~s.ret /\ s.cache = cache /\ s.signal = signal
                       /\ s.timers = timers)
    /\ [](\A k \in Keys : cache[k] \in Values => unlock_script(k).cache = cache)
    /\ [][\A c \in Callers :
            pc'[c] # pc[c] /\ (Lock(c, Ok) \/ Wait(c, Ok) \/ Release(c, Ok))
              => /\ \A k \in Keys : cache[k] \in Values => cache'[k] = cache[k]
                 /\ Wait(c, Ok) => cache' = cache /\ signal' = signal]_vars

C18_Witness ==
    \E c \in Callers :
        /\ pc[c] = "wait"
        /\ cache[key[c]] \in Values
        /\ signal[key[c]] = 1

\* C19: the release script, when it runs, takes every caller blocked on the
\* signal key of its key back to the read step and ends their waits, and the
\* pushed element is on the list afterwards; the callers not blocked on that
\* key stay where they are.
C19_Theorem ==
    [][\A c \in Callers :
        Release(c, Ok) =>
            LET k == key[c]
            IN  /\ \A x \in Blocked(k) : pc'[x] = "get"
                /\ \A i \in 1..Len(timers') :
                      ~(timers'[i].kind = "wait" /\ timers'[i].id \in Blocked(k))
                /\ signal'[k] = signal[k] + 1
                /\ \A x \in Callers \ (Blocked(k) \cup {c}) : pc'[x] = pc[x]]_vars

C19_Witness ==
    \E k \in Keys, x \in Callers, y \in Callers :
        /\ x # y /\ key[x] = k /\ key[y] = k
        /\ pc[x] = "get" /\ pc[y] = "get"
        /\ obs[k].cleared = "cleared"
        /\ signal[k] = 1
        /\ \A i \in 1..Len(timers) : timers[i].kind # "wait"

\* C20, as stated: once the owner has stored and released (in a run without
\* faults and without expiry of the key), no caller is blocked on the signal
\* key: a caller that starts its wait after the release finds the element.
C20_Claim ==
    \A k \in Keys :
        /\ obs[k].clean /\ obs[k].owners = 1
        /\ cache[k] \in Values
        /\ \A o \in Callers : key[o] = k => ~hist[o].holds
        => \A c \in Callers : key[c] = k => pc[c] # "blocked"

C14_Claim ==
    [][\A c \in ReplicaCallers, k \in Keys, wr \in Faults, w \in Weather :
        ProxyPlainGet(c, k, wr, w) =>
            LET sup == Redis_get(redis_client, w, cache[k]).out
            IN  IF sup.exc = NoExc
                  THEN pc'[c] = "body" /\ data'[c] = sup.val
                  ELSE pc'[c] = "done" /\ raised'[c] = sup.exc]_vars

\* C15: only the replica server's own catching up changes the replica; the
\* read of _get_or_lock returns the replica's value when the replica answers;
\* the acquire script decides on the primary's key and sets the sentinel there;
\* the release script and the blocking wait leave the replica as it is.
C15_Theorem ==
    /\ [][replica' # replica => \E k \in Keys : Replicate(k)]_vars
    /\ [][\A c \in ReplicaCallers, k \in Keys :
            ProxyGet(c, k, Ok, Ok) /\ pc'[c] = "body"
              => data'[c] = replica[k] /\ UNCHANGED server]_vars
    /\ [][\A c \in ReplicaCallers :
            /\ Lock(c, Ok) /\ pc'[c] = "body"
                 => /\ cache[key[c]] = NoneV
                    /\ cache'[key[c]] = LOCK
                    /\ replica' = replica
            /\ Lock(c, Ok) /\ pc'[c] = "wait" => cache[key[c]] # NoneV
            /\ Release(c, Ok) \/ Wait(c, Ok) => replica' = replica]_vars

C15_Witness ==
    \E c \in ReplicaCallers, x \in ReplicaCallers :
        /\ pc[c] = "done" /\ raised[c] = NoExc
        /\ cache[key[c]] \in Values /\ signal[key[c]] = 1
        /\ replica[key[c]] = NoneV
        /\ key[x] = key[c] /\ pc[x] = "wait"

====
